---- MODULE Spec2Model ----
(***************************************************************************)
(* A model of the tuit layout engine: Rectangle geometry                   *)
(* (src/widgets/mod.rs), the Text and CenteredText widgets                 *)
(* (src/widgets/builtins), the constant-size terminal                      *)
(* (src/terminal/const_size_ref.rs) and the re-scalable MaxSizeTerminal    *)
(* (src/terminal.rs).                                                      *)
(*                                                                         *)
(* usize values are modelled as Int.  A subtraction whose result is        *)
(* negative stands for the usize underflow: the debug build panics there   *)
(* and the release build wraps modulo 2^64.                                *)
(***************************************************************************)
EXTENDS Integers, Sequences, FiniteSets, TLC

VARIABLES
    rect,       \* the Rectangle value the geometry calls operate on
    term,       \* a constant-size terminal: [WIDTH, HEIGHT, characters]
    mst,        \* a MaxSizeTerminal: [MAX_WIDTH, MAX_HEIGHT, characters, dimensions]
    call,       \* the last call: [op, self, args]
    ret,        \* what the last call returned: [tag, ...]
    snap,       \* MaxSizeTerminal storage at the start of the current run of rescale calls
    panicked    \* TRUE once a call has panicked (the program has aborted)

vars == <<rect, term, mst, call, ret, snap, panicked>>

(***************************************************************************)
(* Bounds of the model.                                                    *)
(***************************************************************************)
MaxCoord == 3

Coord == 0..MaxCoord
Point == Coord \X Coord

NoRect == [left_top |-> <<0, 0>>, right_bottom |-> <<0, 0>>]
NoTerm == [WIDTH |-> 0, HEIGHT |-> 0, characters |-> <<>>]
NoMst  == [MAX_WIDTH |-> 0, MAX_HEIGHT |-> 0, characters |-> <<>>,
           dimensions |-> <<0, 0>>]
NoRet  == [tag |-> "none"]

(***************************************************************************)
(* Rectangle (src/widgets/mod.rs)                                          *)
(***************************************************************************)

\* A plausible slip of Rectangle::new: the y branch keeps the caller's order.
Rectangle_new_unordered_y(first_point, second_point) ==
    LET first_x  == first_point[1]
        second_x == second_point[1]
        x_larger  == IF first_x > second_x THEN first_x ELSE second_x
        x_smaller == IF first_x > second_x THEN second_x ELSE first_x
    IN  [left_top |-> <<x_smaller, first_point[2]>>,
         right_bottom |-> <<x_larger, second_point[2]>>]

Rectangle_new(first_point, second_point) ==
    LET first_x  == first_point[1]
        first_y  == first_point[2]
        second_x == second_point[1]
        second_y == second_point[2]
        x_larger  == IF first_x > second_x THEN first_x ELSE second_x
        x_smaller == IF first_x > second_x THEN second_x ELSE first_x
        y_larger  == IF first_y > second_y THEN first_y ELSE second_y
        y_smaller == IF first_y > second_y THEN second_y ELSE first_y
    IN  [left_top |-> <<x_smaller, y_smaller>>,
         right_bottom |-> <<x_larger, y_larger>>]

\* Rectangle::of_size with the two sizes exchanged
of_size_transposed(w, h) == [left_top |-> <<0, 0>>, right_bottom |-> <<h, w>>]

of_size(w, h) == [left_top |-> <<0, 0>>, right_bottom |-> <<w, h>>]

left(r)   == r.left_top[1]
top(r)    == r.left_top[2]
right(r)  == r.right_bottom[1]
bottom(r) == r.right_bottom[2]

left_top(r)     == <<left(r), top(r)>>
right_bottom(r) == <<right(r), bottom(r)>>

\* usize subtractions: a negative value is the underflow
width(r)  == right(r) - left(r)
height(r) == bottom(r) - top(r)

dimensions(r) == <<width(r), height(r)>>
area(r) == width(r) * height(r)

right_to(r, new_edge) ==
    IF new_edge >= left(r)
    THEN [r EXCEPT !.right_bottom[1] = new_edge]
    ELSE \* right := new_edge, then right and left are swapped
         [r EXCEPT !.right_bottom[1] = left(r), !.left_top[1] = new_edge]

left_to(r, new_edge) ==
    IF new_edge <= left(r)
    THEN [r EXCEPT !.left_top[1] = new_edge]
    ELSE \* left := new_edge, then right and left are swapped
         [r EXCEPT !.right_bottom[1] = new_edge, !.left_top[1] = right(r)]

bottom_to(r, new_edge) ==
    IF new_edge >= bottom(r)
    THEN [r EXCEPT !.right_bottom[2] = new_edge]
    ELSE \* bottom := new_edge, then top and bottom are swapped
         [r EXCEPT !.left_top[2] = new_edge, !.right_bottom[2] = top(r)]

top_to(r, new_edge) ==
    IF new_edge <= top(r)
    THEN [r EXCEPT !.left_top[2] = new_edge]
    ELSE \* top := new_edge, then top and bottom are swapped
         [r EXCEPT !.left_top[2] = bottom(r), !.right_bottom[2] = new_edge]

\* Rectangle::contains with the right and bottom edges excluded
contains_exclusive(r, point) ==
    LET x == point[1]
        y == point[2]
        x_in_bounds == x >= left(r) /\ x < right(r)
        y_in_bounds == y >= top(r) /\ y < bottom(r)
    IN  x_in_bounds /\ y_in_bounds

contains(r, point) ==
    LET x == point[1]
        y == point[2]
        x_in_bounds == x >= left(r) /\ x <= right(r)
        y_in_bounds == y >= top(r) /\ y <= bottom(r)
    IN  x_in_bounds /\ y_in_bounds

contains_rect(r, other) ==
    contains(r, left_top(other)) /\ contains(r, right_bottom(other))

to(r, new_left_top) ==
    [left_top |-> new_left_top,
     right_bottom |-> <<new_left_top[1] + width(r), new_left_top[2] + height(r)>>]

\* width() or height() underflows on r
Underflows(r) == width(r) < 0 \/ height(r) < 0

(***************************************************************************)
(* The geometry calls as steps on one Rectangle value.                     *)
(***************************************************************************)
RectIdle == /\ term = NoTerm /\ mst = NoMst /\ snap = <<>> /\ ret = NoRet

InitRect ==
    /\ \/ \E p1 \in Point, p2 \in Point :
            /\ rect = Rectangle_new(p1, p2)
            /\ call = [op |-> "new", self |-> NoRect, args |-> <<p1, p2>>]
       \/ \E w \in Coord, h \in Coord :
            /\ rect = of_size(w, h)
            /\ call = [op |-> "of_size", self |-> NoRect, args |-> <<w, h>>]
    /\ RectIdle
    /\ panicked = FALSE

RectFrame == UNCHANGED <<term, mst, ret, snap>>

New ==
    /\ ~panicked
    /\ \E p1 \in Point, p2 \in Point :
         /\ rect' = Rectangle_new(p1, p2)
         /\ call' = [op |-> "new", self |-> NoRect, args |-> <<p1, p2>>]
    /\ UNCHANGED panicked
    /\ RectFrame

OfSize ==
    /\ ~panicked
    /\ \E w \in Coord, h \in Coord :
         /\ rect' = of_size(w, h)
         /\ call' = [op |-> "of_size", self |-> NoRect, args |-> <<w, h>>]
    /\ UNCHANGED panicked
    /\ RectFrame

RightTo ==
    /\ ~panicked
    /\ \E n \in Coord :
         /\ rect' = right_to(rect, n)
         /\ call' = [op |-> "right_to", self |-> rect, args |-> <<n>>]
    /\ UNCHANGED panicked
    /\ RectFrame

LeftTo ==
    /\ ~panicked
    /\ \E n \in Coord :
         /\ rect' = left_to(rect, n)
         /\ call' = [op |-> "left_to", self |-> rect, args |-> <<n>>]
    /\ UNCHANGED panicked
    /\ RectFrame

BottomTo ==
    /\ ~panicked
    /\ \E n \in Coord :
         /\ rect' = bottom_to(rect, n)
         /\ call' = [op |-> "bottom_to", self |-> rect, args |-> <<n>>]
    /\ UNCHANGED panicked
    /\ RectFrame

TopTo ==
    /\ ~panicked
    /\ \E n \in Coord :
         /\ rect' = top_to(rect, n)
         /\ call' = [op |-> "top_to", self |-> rect, args |-> <<n>>]
    /\ UNCHANGED panicked
    /\ RectFrame

\* Rectangle::to.  The result is kept within Coord.  On a rectangle whose
\* width() or height() underflows the debug build panics; the release build
\* wraps, and the wrapped sum is the Int sum whenever that is not negative.
To ==
    /\ ~panicked
    /\ \E p \in Point :
         /\ call' = [op |-> "to", self |-> rect, args |-> <<p>>]
         /\ \/ /\ right(to(rect, p)) \in Coord
               /\ bottom(to(rect, p)) \in Coord
               /\ rect' = to(rect, p)
               /\ UNCHANGED panicked
            \/ /\ Underflows(rect)
               /\ panicked' = TRUE
               /\ UNCHANGED rect
    /\ RectFrame

NextRect == New \/ OfSize \/ RightTo \/ LeftTo \/ BottomTo \/ TopTo \/ To

SpecRect == InitRect /\ [][NextRect]_vars

(***************************************************************************)
(* Claims about Rectangle, checked under SpecRect.                         *)
(***************************************************************************)
MinOf(a, b) == IF a <= b THEN a ELSE b
MaxOf(a, b) == IF a >= b THEN a ELSE b

\* C1: for every pair of corner points p1, p2, Rectangle::new(p1, p2) has
\* left <= right and top <= bottom, its corners are the component-wise
\* minimum and maximum of p1 and p2, and it equals Rectangle::new(p2, p1).
C1_NewNormalizes ==
    call.op = "new" =>
        LET p1 == call.args[1]
            p2 == call.args[2]
        IN  /\ left(rect) <= right(rect)
            /\ top(rect) <= bottom(rect)
            /\ left_top(rect) = <<MinOf(p1[1], p2[1]), MinOf(p1[2], p2[2])>>
            /\ right_bottom(rect) = <<MaxOf(p1[1], p2[1]), MaxOf(p1[2], p2[2])>>
            /\ rect = Rectangle_new(p2, p1)

\* C1 witness: new() was called with corners that are out of order in x and
\* in order in y.
C1_Witness ==
    /\ call.op = "new"
    /\ call.args[1][1] > call.args[2][1]
    /\ call.args[1][2] < call.args[2][2]

\* C2: after any sequence of left_to, right_to, top_to, bottom_to and to on a
\* rectangle built by new or of_size, left <= right and top <= bottom, so
\* width() and height() never underflow.
C2_AlwaysNormalized ==
    /\ left(rect) <= right(rect)
    /\ top(rect) <= bottom(rect)
    /\ ~Underflows(rect)

\* C3: when the new coordinate n does not cross the opposite edge, the edge
\* mutator returns a rectangle whose named edge is n and whose other three
\* edges are unchanged.
C3_EdgeMovedOnly ==
    LET n == call.args[1]
        s == call.self
    IN  /\ (call.op = "left_to" /\ n <= right(s))
              => rect = [s EXCEPT !.left_top[1] = n]
        /\ (call.op = "right_to" /\ n >= left(s))
              => rect = [s EXCEPT !.right_bottom[1] = n]
        /\ (call.op = "top_to" /\ n <= bottom(s))
              => rect = [s EXCEPT !.left_top[2] = n]
        /\ (call.op = "bottom_to" /\ n >= top(s))
              => rect = [s EXCEPT !.right_bottom[2] = n]

(***************************************************************************)
(* Cells, styles and results                                               *)
(***************************************************************************)
MaxW   == 2     \* widest terminal
MaxH   == 2     \* tallest terminal
MaxLen == 3     \* longest text

Chars  == {"a", "b"}
Styles == {"new", "styled"}      \* Style::new() and one other style

\* Cell::default(): a blank with Style::new()
BlankCell == [character |-> " ", style |-> "new"]

RECURSIVE TextsUpTo(_)
TextsUpTo(n) ==
    IF n = 0 THEN {<<>>}
    ELSE TextsUpTo(n - 1) \cup
         {Append(t, c) : t \in {u \in TextsUpTo(n - 1) : Len(u) = n - 1}, c \in Chars}

Texts == TextsUpTo(MaxLen)

Ok(v)  == [tag |-> "Ok", value |-> v]
OutOfBoundsCharacter(i)     == [tag |-> "Err", error |-> "OutOfBoundsCharacter", index |-> i]
OutOfBoundsCoordinate(x, y) == [tag |-> "Err", error |-> "OutOfBoundsCoordinate", x |-> x, y |-> y]
Panic == [tag |-> "panic"]
None    == [tag |-> "None"]
Some(v) == [tag |-> "Some", value |-> v]

(***************************************************************************)
(* ConstantSizeRef<WIDTH, HEIGHT, T> (src/terminal/const_size_ref.rs):     *)
(* characters is HEIGHT rows of WIDTH cells.  Coordinates are 0-based,     *)
(* TLA+ sequences 1-based.                                                 *)
(***************************************************************************)
ConstantSizeRef_new(W, H) ==
    [WIDTH |-> W, HEIGHT |-> H,
     characters |-> [y \in 1..H |-> [x \in 1..W |-> BlankCell]]]

Metadata_dimensions(t) == <<t.WIDTH, t.HEIGHT>>

\* iter().flatten() over the rows: the cell references in row-major order,
\* each reference given as the <<x, y>> of the cell it points to
RECURSIVE FlattenRows(_, _)
FlattenRows(t, y) ==
    IF y >= Len(t.characters) THEN <<>>
    ELSE [x \in 1..Len(t.characters[y + 1]) |-> <<x - 1, y>>] \o FlattenRows(t, y + 1)

cells_mut(t) == FlattenRows(t, 0)

\* characters.get(y)?.get(x)
cell(t, x, y) ==
    IF y >= Len(t.characters) THEN None
    ELSE IF x >= Len(t.characters[y + 1]) THEN None
    ELSE Some(t.characters[y + 1][x + 1])

\* the cell a reference points to, and a write through a reference
Deref(characters, ref) == characters[ref[2] + 1][ref[1] + 1]
WriteRef(characters, ref, c) ==
    [characters EXCEPT ![ref[2] + 1][ref[1] + 1] = c]

(***************************************************************************)
(* Text (src/widgets/builtins/text.rs)                                     *)
(***************************************************************************)
Text_new(s) == [text |-> s, style |-> "new"]
styled(w, st) == [w EXCEPT !.style = st]

\* A plausible slip of the draw loop: the style of the cell is left alone.
RECURSIVE Text_draw_no_style(_, _, _, _)
Text_draw_no_style(w, characters, refs, idx) ==
    IF idx >= Len(w.text)
    THEN [ret |-> Ok("NoEvent"), characters |-> characters]
    ELSE IF idx >= Len(refs)
    THEN [ret |-> OutOfBoundsCharacter(idx), characters |-> characters]
    ELSE Text_draw_no_style(w,
            WriteRef(characters, refs[idx + 1],
                     [Deref(characters, refs[idx + 1]) EXCEPT !.character = w.text[idx + 1]]),
            refs, idx + 1)

\* A plausible slip of the draw loop: the error carries the text length.
RECURSIVE Text_draw_err_len(_, _, _, _)
Text_draw_err_len(w, characters, refs, idx) ==
    IF idx >= Len(w.text)
    THEN [ret |-> Ok("NoEvent"), characters |-> characters]
    ELSE IF idx >= Len(refs)
    THEN [ret |-> OutOfBoundsCharacter(Len(w.text)), characters |-> characters]
    ELSE Text_draw_err_len(w,
            WriteRef(characters, refs[idx + 1],
                     [character |-> w.text[idx + 1], style |-> w.style]),
            refs, idx + 1)

\* A plausible variant of the draw: the length is checked before any cell is
\* written, so a failing draw writes nothing.
RECURSIVE Text_draw_atomic(_, _, _, _)
Text_draw_atomic(w, characters, refs, idx) ==
    IF Len(w.text) > Len(refs)
    THEN [ret |-> OutOfBoundsCharacter(Len(refs)), characters |-> characters]
    ELSE IF idx >= Len(w.text)
    THEN [ret |-> Ok("NoEvent"), characters |-> characters]
    ELSE Text_draw_atomic(w,
            WriteRef(characters, refs[idx + 1],
                     [character |-> w.text[idx + 1], style |-> w.style]),
            refs, idx + 1)

\* Text::draw from the idx-th character on (idx is 0-based): refs is what
\* terminal.cells_mut() yields, cells.next() is refs[idx + 1].
RECURSIVE Text_draw(_, _, _, _)
Text_draw(w, characters, refs, idx) ==
    IF idx >= Len(w.text)
    THEN [ret |-> Ok("NoEvent"), characters |-> characters]
    ELSE IF idx >= Len(refs)
    THEN [ret |-> OutOfBoundsCharacter(idx), characters |-> characters]
    ELSE Text_draw(w,
            WriteRef(characters, refs[idx + 1],
                     [character |-> w.text[idx + 1], style |-> w.style]),
            refs, idx + 1)

(***************************************************************************)
(* Text drawn into a constant-size terminal, call after call.              *)
(***************************************************************************)
InitTerm ==
    /\ \E W \in 0..MaxW, H \in 0..MaxH : term = ConstantSizeRef_new(W, H)
    /\ rect = NoRect /\ mst = NoMst /\ snap = <<>>
    /\ call = [op |-> "ConstantSizeRef::new", self |-> <<>>, args |-> <<>>]
    /\ ret = NoRet
    /\ panicked = FALSE

TermFrame == UNCHANGED <<rect, mst, snap>>

\* text.styled(st).drawn(&mut term)
TextDraw ==
    /\ ~panicked
    /\ \E s \in Texts, st \in Styles :
         LET w == styled(Text_new(s), st)
             d == Text_draw(w, term.characters, cells_mut(term), 0)
         IN  /\ term' = [term EXCEPT !.characters = d.characters]
             /\ ret' = d.ret
             /\ call' = [op |-> "Text::draw", self |-> w, args |-> <<term>>]
    /\ UNCHANGED panicked
    /\ TermFrame

NextText == TextDraw

SpecText == InitTerm /\ [][NextText]_vars

(***************************************************************************)
(* Claims about Text::draw, checked under SpecText.                        *)
(***************************************************************************)
\* the number of cells of the terminal the last call was made on
Capacity(t) == t.WIDTH * t.HEIGHT

\* C6: drawing Text::new(s) into a terminal that has at least len(s) cells
\* returns Ok, and afterwards the i-th cell in row-major order, starting at
\* (0,0), holds the i-th character of s with the widget's style, for every
\* i < len(s).
C6_TextDrawnRowMajor ==
    (call.op = "Text::draw" /\ Len(call.self.text) <= Capacity(call.args[1])) =>
        /\ ret.tag = "Ok"
        /\ \A i \in 0..(Len(call.self.text) - 1) :
              cell(term, i % term.WIDTH, i \div term.WIDTH)
                 = Some([character |-> call.self.text[i + 1], style |-> call.self.style])

\* C6 witness: a three-character styled text has been drawn over two rows of
\* a terminal two cells wide that held other characters before.
C6_Witness ==
    /\ call.op = "Text::draw"
    /\ Len(call.self.text) = 3
    /\ call.self.style = "styled"
    /\ term.WIDTH = 2 /\ term.HEIGHT = 2
    /\ cell(call.args[1], 0, 1) # Some(BlankCell)
    /\ cell(call.args[1], 0, 1).value.character # call.self.text[3]
    /\ ret.tag = "Ok"

\* C7: drawing Text::new(s) into a terminal with c < len(s) cells returns
\* Err(OutOfBoundsCharacter(c)), c being the index of the first character
\* that has no cell.
C7_TextTooLongError ==
    (call.op = "Text::draw" /\ Capacity(call.args[1]) < Len(call.self.text)) =>
        ret = OutOfBoundsCharacter(Capacity(call.args[1]))

\* C7 witness: a three-character text was drawn into a terminal of two
\* cells and the draw failed.
C7_Witness ==
    /\ call.op = "Text::draw"
    /\ Len(call.self.text) = 3
    /\ Capacity(call.args[1]) = 2
    /\ ret.tag = "Err"

(***************************************************************************)
(* CenteredText (src/widgets/builtins/centered_text.rs)                    *)
(***************************************************************************)
CenteredText_new(s) == [prompt_text |-> s, style |-> "new"]
style(w, st) == [w EXCEPT !.style = st]

\* usize::div_ceil; the divisor is not 0
div_ceil(a, b) == (a + b - 1) \div b

\* Metadata::bounding_box of a terminal: the rectangle of its dimensions
Metadata_bounding_box(t) == of_size(Metadata_dimensions(t)[1], Metadata_dimensions(t)[2])

\* TerminalMut::view_mut: the cells of the terminal inside rectangle r, in
\* row-major order, or None when r does not lie within the terminal
view_mut(t, r) ==
    IF ~(right(r) <= t.WIDTH /\ bottom(r) <= t.HEIGHT /\ ~Underflows(r))
    THEN None
    ELSE LET w == width(r)
             n == w * height(r)
         IN  Some([i \in 1..n |-> <<left(r) + ((i - 1) % w), top(r) + ((i - 1) \div w)>>])

\* A plausible variant of the centering: the difference is halved once.
CenteredText_bounding_box_halved_difference(w, r) ==
    LET terminal_width  == dimensions(r)[1]
        terminal_height == dimensions(r)[2]
        text_len == Len(w.prompt_text)
    IN  IF terminal_width = 0 THEN Panic
        ELSE LET h0 == div_ceil(text_len, terminal_width)
                 height_ == IF h0 <= terminal_height THEN h0 ELSE terminal_height
                 width_  == IF text_len <= terminal_width THEN text_len ELSE terminal_width
                 left_ == (terminal_width - width_) \div 2
                 top_  == (terminal_height - height_) \div 2
             IN  [tag |-> "Ok",
                  value |-> Rectangle_new(<<left_, top_>>, <<left_ + width_, top_ + height_>>)]

\* CenteredText::bounding_box(rect).  text_len.div_ceil(0) panics.
CenteredText_bounding_box(w, r) ==
    LET terminal_width  == dimensions(r)[1]
        terminal_height == dimensions(r)[2]
        text_len == Len(w.prompt_text)
    IN  IF terminal_width = 0 THEN Panic
        ELSE LET h0 == div_ceil(text_len, terminal_width)
                 height_ == IF h0 <= terminal_height THEN h0 ELSE terminal_height
                 width_  == IF text_len <= terminal_width THEN text_len ELSE terminal_width
                 horizontal_center == terminal_width \div 2
                 vertical_center   == terminal_height \div 2
                 left_   == horizontal_center - (width_ \div 2)
                 right_  == left_ + width_
                 top_    == vertical_center - (height_ \div 2)
                 bottom_ == top_ + height_
             IN  [tag |-> "Ok",
                  value |-> Rectangle_new(<<left_, top_>>, <<right_, bottom_>>)]

\* CenteredText::draw: `?` returns the error of bounding_box, expect()
\* panics on a view that does not exist, `?` returns the error of the draw
CenteredText_draw(w, t) ==
    LET bb == CenteredText_bounding_box(w, Metadata_bounding_box(t))
    IN  IF bb.tag = "panic" THEN [ret |-> Panic, characters |-> t.characters]
        ELSE IF bb.tag = "Err" THEN [ret |-> bb, characters |-> t.characters]
        ELSE LET view == view_mut(t, bb.value)
             IN  IF view.tag = "None" THEN [ret |-> Panic, characters |-> t.characters]
                 ELSE LET text == styled(Text_new(w.prompt_text), w.style)
                          d == Text_draw(text, t.characters, view.value, 0)
                      IN  IF d.ret.tag = "Ok"
                          THEN [ret |-> Ok("NoEvent"), characters |-> d.characters]
                          ELSE d

(***************************************************************************)
(* CenteredText on a constant-size terminal, call after call.              *)
(***************************************************************************)
\* the rectangles handed to bounding_box
Rects == {Rectangle_new(p1, p2) : p1 \in Point, p2 \in Point}

\* CenteredText::new(s).bounding_box(r) for some r of the set rs
BoundingBoxOf(rs) ==
    /\ ~panicked
    /\ \E s \in Texts, r \in rs :
         LET w == CenteredText_new(s)
         IN  /\ ret' = CenteredText_bounding_box(w, r)
             /\ call' = [op |-> "CenteredText::bounding_box", self |-> w, args |-> <<r>>]
             /\ panicked' = (ret'.tag = "panic")
    /\ UNCHANGED term
    /\ TermFrame

\* bounding_box of any rectangle
CenteredBoundingBox == BoundingBoxOf(Rects)

\* bounding_box(terminal.bounding_box()), as update and draw call it
CenteredTerminalBoundingBox == BoundingBoxOf({Metadata_bounding_box(term)})

\* CenteredText::new(s).style(st).drawn(&mut term)
CenteredDraw ==
    /\ ~panicked
    /\ \E s \in Texts, st \in Styles :
         LET w == style(CenteredText_new(s), st)
             d == CenteredText_draw(w, term)
         IN  /\ term' = [term EXCEPT !.characters = d.characters]
             /\ ret' = d.ret
             /\ call' = [op |-> "CenteredText::draw", self |-> w, args |-> <<term>>]
             /\ panicked' = (d.ret.tag = "panic")
    /\ TermFrame

NextCentered == CenteredTerminalBoundingBox \/ CenteredDraw

SpecCentered == InitTerm /\ [][NextCentered]_vars

\* bounding_box as a function of the text and of the rectangle alone
InitBox ==
    /\ term = NoTerm /\ rect = NoRect /\ mst = NoMst /\ snap = <<>>
    /\ call = [op |-> "none", self |-> <<>>, args |-> <<>>]
    /\ ret = NoRet
    /\ panicked = FALSE

NextBox == CenteredBoundingBox

SpecCenteredBox == InitBox /\ [][NextBox]_vars

C5_TooSmallIsOutOfBoundsCoordinate ==
    (/\ call.op \in {"CenteredText::bounding_box", "CenteredText::draw"}
     /\ ret.tag # "panic"
     /\ Capacity(term) >= 1
     /\ Len(call.self.prompt_text) > Capacity(term)) =>
        (ret.tag = "Err" /\ ret.error = "OutOfBoundsCoordinate")

(***************************************************************************)
(* MaxSizeTerminal<MAX_WIDTH, MAX_HEIGHT> (src/terminal.rs): characters is *)
(* MAX_HEIGHT rows of MAX_WIDTH cells, dimensions the active (w, h).       *)
(***************************************************************************)
MaxCap    == 2     \* largest MAX_WIDTH and MAX_HEIGHT instantiated
MaxWrites == 1     \* cells written through character_mut in one run

\* TerminalCell::default(): char::default() with TerminalStyle::default()
DefaultCell == [character |-> "NUL", style |-> "new"]

MaxSizeTerminal_new(MAX_WIDTH, MAX_HEIGHT) ==
    [MAX_WIDTH |-> MAX_WIDTH, MAX_HEIGHT |-> MAX_HEIGHT,
     characters |-> [y \in 1..MAX_HEIGHT |-> [x \in 1..MAX_WIDTH |-> DefaultCell]],
     dimensions |-> <<MAX_WIDTH, MAX_HEIGHT>>]

\* A plausible slip of rescale: the storage outside the new window is cleared.
rescale_clearing(t, new_width, new_height) ==
    IF new_width > t.MAX_WIDTH
    THEN [ret |-> [tag |-> "Err", value |-> <<new_width, new_height>>], t |-> t]
    ELSE IF new_height > t.MAX_HEIGHT
    THEN [ret |-> [tag |-> "Err", value |-> <<new_width, new_height>>], t |-> t]
    ELSE [ret |-> Ok(<<>>),
          t |-> [t EXCEPT !.dimensions = <<new_width, new_height>>,
                          !.characters =
                              [y \in 1..t.MAX_HEIGHT |-> [x \in 1..t.MAX_WIDTH |->
                                  IF x <= new_width /\ y <= new_height
                                  THEN t.characters[y][x] ELSE DefaultCell]]]]

\* A plausible slip of rescale: the height is not checked, and the error
\* carries the maximum instead of the attempted pair.
rescale_unchecked_height(t, new_width, new_height) ==
    IF new_width > t.MAX_WIDTH
    THEN [ret |-> [tag |-> "Err", value |-> <<t.MAX_WIDTH, new_height>>], t |-> t]
    ELSE [ret |-> Ok(<<>>), t |-> [t EXCEPT !.dimensions = <<new_width, new_height>>]]

\* A plausible slip of rescale: the dimensions are stored before the checks.
rescale_stored_before_check(t, new_width, new_height) ==
    LET stored == [t EXCEPT !.dimensions = <<new_width, new_height>>]
    IN  IF new_width > t.MAX_WIDTH
        THEN [ret |-> [tag |-> "Err", value |-> <<new_width, new_height>>], t |-> stored]
        ELSE IF new_height > t.MAX_HEIGHT
        THEN [ret |-> [tag |-> "Err", value |-> <<new_width, new_height>>], t |-> stored]
        ELSE [ret |-> Ok(<<>>), t |-> stored]

\* MaxSizeTerminal::rescale: the result and the terminal afterwards
rescale(t, new_width, new_height) ==
    IF new_width > t.MAX_WIDTH
    THEN [ret |-> [tag |-> "Err", value |-> <<new_width, new_height>>], t |-> t]
    ELSE IF new_height > t.MAX_HEIGHT
    THEN [ret |-> [tag |-> "Err", value |-> <<new_width, new_height>>], t |-> t]
    ELSE [ret |-> Ok(<<>>), t |-> [t EXCEPT !.dimensions = <<new_width, new_height>>]]

\* Terminal::dimensions of MaxSizeTerminal
Terminal_dimensions(t) == t.dimensions

\* MaxSizeTerminal::characters / characters_mut:
\*     self.characters[0..acting_height][0..acting_width].flatten()
\* The first range takes rows 0..acting_height of the array; the second
\* range indexes that slice of rows again, so it takes rows 0..acting_width
\* and panics when acting_width exceeds the acting_height rows it has.  Each
\* row kept is a whole row of MAX_WIDTH cells.  The result is the sequence of
\* references, each given as the <<x, y>> of the stored cell.
characters(t) ==
    LET acting_height == t.dimensions[2]
        acting_width  == t.dimensions[1]
    IN  IF acting_height > t.MAX_HEIGHT THEN Panic
        ELSE IF acting_width > acting_height THEN Panic
        ELSE Some([i \in 1..(acting_width * t.MAX_WIDTH) |->
                     <<(i - 1) % t.MAX_WIDTH, (i - 1) \div t.MAX_WIDTH>>])

\* Terminal::character / character_mut: characters().get(width * y + x)
character(t, x, y) ==
    LET width_ == Terminal_dimensions(t)[1]
        slice == characters(t)
    IN  IF slice.tag = "panic" THEN Panic
        ELSE IF (width_ * y) + x < Len(slice.value)
             THEN Some(slice.value[(width_ * y) + x + 1])
             ELSE None

(***************************************************************************)
(* A MaxSizeTerminal that is rescaled, read and written, call after call.  *)
(***************************************************************************)
InitMax ==
    /\ \E MW \in 1..MaxCap, MH \in 1..MaxCap : mst = MaxSizeTerminal_new(MW, MH)
    /\ snap = [characters |-> mst.characters, dimensions |-> mst.dimensions,
               writes |-> 0]
    /\ rect = NoRect /\ term = NoTerm
    /\ call = [op |-> "new", self |-> mst, args |-> <<>>]
    /\ ret = NoRet
    /\ panicked = FALSE

MaxFrame == UNCHANGED <<rect, term>>

\* my_max_terminal.rescale(w, h); snap keeps the storage and the dimensions
\* the terminal had before the current run of rescale calls, and the number
\* of character_mut calls made so far
Rescale ==
    /\ ~panicked
    /\ \E w \in 0..(mst.MAX_WIDTH + 1), h \in 0..(mst.MAX_HEIGHT + 1) :
         LET r == rescale(mst, w, h)
         IN  /\ mst' = r.t
             /\ ret' = r.ret
             /\ call' = [op |-> "rescale", self |-> mst, args |-> <<w, h>>]
    /\ UNCHANGED <<snap, panicked>>
    /\ MaxFrame

\* my_max_terminal.characters()
Characters ==
    /\ ~panicked
    /\ ret' = characters(mst)
    /\ call' = [op |-> "characters", self |-> mst, args |-> <<>>]
    /\ panicked' = (ret'.tag = "panic")
    /\ snap' = [snap EXCEPT !.characters = mst.characters,
                            !.dimensions = mst.dimensions]
    /\ UNCHANGED mst
    /\ MaxFrame

\* my_max_terminal.character_mut(x, y).map(|cell| cell.character = 'x')
CharacterMut ==
    /\ ~panicked
    /\ snap.writes < MaxWrites
    /\ \E x \in 0..mst.MAX_WIDTH, y \in 0..mst.MAX_HEIGHT :
         LET c == character(mst, x, y)
         IN  /\ ret' = c
             /\ call' = [op |-> "character_mut", self |-> mst, args |-> <<x, y>>]
             /\ panicked' = (c.tag = "panic")
             /\ mst' = IF c.tag = "Some"
                       THEN [mst EXCEPT !.characters =
                               WriteRef(mst.characters, c.value,
                                   [Deref(mst.characters, c.value) EXCEPT !.character = "x"])]
                       ELSE mst
             /\ snap' = [characters |-> mst'.characters,
                         dimensions |-> mst'.dimensions,
                         writes |-> snap.writes + 1]
    /\ MaxFrame

NextMax == Rescale \/ Characters \/ CharacterMut

SpecMax == InitMax /\ [][NextMax]_vars

(***************************************************************************)
(* Claims about MaxSizeTerminal, checked under SpecMax.                    *)
(***************************************************************************)
\* C8: rescale(w, h) with w > MAX_WIDTH or h > MAX_HEIGHT returns Err((w, h))
\* with exactly the attempted pair and leaves dimensions() unchanged; with
\* w <= MAX_WIDTH and h <= MAX_HEIGHT it returns Ok and dimensions() becomes
\* (w, h).
C8_RescaleResult ==
    call.op = "rescale" =>
        LET w == call.args[1]
            h == call.args[2]
            before == call.self
        IN  IF w > before.MAX_WIDTH \/ h > before.MAX_HEIGHT
            THEN /\ ret = [tag |-> "Err", value |-> <<w, h>>]
                 /\ Terminal_dimensions(mst) = Terminal_dimensions(before)
            ELSE /\ ret.tag = "Ok"
                 /\ Terminal_dimensions(mst) = <<w, h>>

\* C8 witness: a terminal shrunk below its maximum was rescaled to a width
\* within the maximum and a height above it, and the call failed.
C8_Witness ==
    /\ call.op = "rescale"
    /\ call.args[1] <= call.self.MAX_WIDTH
    /\ call.args[1] # call.self.dimensions[1]
    /\ call.args[2] > call.self.MAX_HEIGHT
    /\ call.self.dimensions # <<call.self.MAX_WIDTH, call.self.MAX_HEIGHT>>
    /\ ret.tag = "Err"

\* C9: rescale, whether it succeeds or fails, changes no stored cell; after
\* any run of rescale calls (a shrink and then a growth back to the earlier
\* size among them) every stored cell holds the content it had before the
\* run.
C9_RescaleKeepsStorage ==
    call.op = "rescale" =>
        /\ mst.characters = call.self.characters
        /\ mst.characters = snap.characters

\* C9 witness: the terminal was shrunk and has just grown back to the size
\* it had before the shrink, and a cell that was outside the shrunk window
\* holds a character written before the shrink.
C9_Witness ==
    /\ call.op = "rescale"
    /\ ret.tag = "Ok"
    /\ mst.dimensions = snap.dimensions
    /\ call.self.dimensions # snap.dimensions
    /\ \E y \in 1..mst.dimensions[2], x \in 1..mst.dimensions[1] :
          /\ x > call.self.dimensions[1] \/ y > call.self.dimensions[2]
          /\ mst.characters[y][x].character = "x"

\* C10: for active dimensions (w, h), characters() and characters_mut()
\* return, without panicking, exactly w * h cells: the cells of the live
\* region (x < w, y < h) in row-major order.
C10_CharactersAreLiveRegion ==
    call.op = "characters" =>
        LET w == call.self.dimensions[1]
            h == call.self.dimensions[2]
        IN  /\ ret.tag = "Some"
            /\ Len(ret.value) = w * h
            /\ \A i \in 1..(w * h) : ret.value[i] = <<(i - 1) % w, (i - 1) \div w>>

(***************************************************************************)
(* ConstantSizeTerminal<WIDTH, HEIGHT> (src/terminal.rs): HEIGHT rows of   *)
(* WIDTH cells, read through the Terminal trait's default methods.         *)
(***************************************************************************)
\* TerminalCell { character: ' ', style: TerminalStyle::default() }
TerminalCell_blank == [character |-> " ", style |-> "default"]

ConstantSizeTerminal_new(W, H) ==
    [WIDTH |-> W, HEIGHT |-> H,
     characters |-> [y \in 1..H |-> [x \in 1..W |-> TerminalCell_blank]]]

ConstantSizeTerminal_dimensions(t) == <<t.WIDTH, t.HEIGHT>>

\* self.characters.flatten(): the references to the cells in row-major
\* order, each given as the <<x, y>> of the cell it points to
ConstantSizeTerminal_characters(t) == FlattenRows(t, 0)

\* Terminal::character / character_mut on a ConstantSizeTerminal:
\*     let width = self.width(); self.characters().get((width * y) + x)
ConstantSizeTerminal_character(t, x, y) ==
    LET width_ == ConstantSizeTerminal_dimensions(t)[1]
        slice  == ConstantSizeTerminal_characters(t)
    IN  IF (width_ * y) + x < Len(slice)
        THEN Some(slice[(width_ * y) + x + 1])
        ELSE None

\* TerminalExtended::copied_view::<WIDTH, HEIGHT>(x_offset, y_offset): the
\* tuple returned by dimensions() is (width, height) and is destructured as
\* (terminal_height, terminal_width); characters[i] panics when i is out of
\* range
copied_view(t, WIDTH, HEIGHT, x_offset, y_offset) ==
    LET terminal_height == ConstantSizeTerminal_dimensions(t)[1]
        terminal_width  == ConstantSizeTerminal_dimensions(t)[2]
        slice == ConstantSizeTerminal_characters(t)
        idx(x, y) == x_offset + x + (y_offset + y) * terminal_width
    IN  IF y_offset + HEIGHT > terminal_height
        THEN OutOfBoundsCoordinate(x_offset + WIDTH, y_offset + HEIGHT)
        ELSE IF x_offset + WIDTH > terminal_width
        THEN OutOfBoundsCoordinate(x_offset + WIDTH, y_offset + HEIGHT)
        ELSE IF \E x \in 0..(WIDTH - 1), y \in 0..(HEIGHT - 1) : idx(x, y) >= Len(slice)
        THEN Panic
        ELSE Ok([y \in 1..HEIGHT |-> [x \in 1..WIDTH |->
                    Deref(t.characters, slice[idx(x - 1, y - 1) + 1])]])

(***************************************************************************)
(* A ConstantSizeTerminal that is read, written and copied from, call      *)
(* after call.                                                             *)
(***************************************************************************)
InitConst ==
    /\ \E W \in 0..MaxW, H \in 0..MaxH : term = ConstantSizeTerminal_new(W, H)
    /\ rect = NoRect /\ mst = NoMst /\ snap = <<>>
    /\ call = [op |-> "ConstantSizeTerminal::new", self |-> <<>>, args |-> <<>>]
    /\ ret = NoRet
    /\ panicked = FALSE

\* my_terminal.character(x, y)
Character ==
    /\ ~panicked
    /\ \E x \in 0..(MaxW + 1), y \in 0..(MaxH + 1) :
         /\ ret' = ConstantSizeTerminal_character(term, x, y)
         /\ call' = [op |-> "character", self |-> term, args |-> <<x, y>>]
    /\ UNCHANGED <<term, panicked>>
    /\ TermFrame

\* my_terminal.character_mut(x, y).map(|cell| cell.character = 'x')
ConstCharacterMut ==
    /\ ~panicked
    /\ \E x \in 0..(MaxW + 1), y \in 0..(MaxH + 1) :
         LET c == ConstantSizeTerminal_character(term, x, y)
         IN  /\ ret' = c
             /\ call' = [op |-> "character_mut", self |-> term, args |-> <<x, y>>]
             /\ term' = IF c.tag = "Some"
                        THEN [term EXCEPT !.characters =
                                WriteRef(term.characters, c.value,
                                    [Deref(term.characters, c.value) EXCEPT !.character = "x"])]
                        ELSE term
    /\ UNCHANGED panicked
    /\ TermFrame

\* my_terminal.copied_view::<WIDTH, HEIGHT>(x_offset, y_offset)
CopiedView ==
    /\ ~panicked
    /\ \E WIDTH \in 0..MaxW, HEIGHT \in 0..MaxH,
          x_offset \in 0..MaxW, y_offset \in 0..MaxH :
         /\ ret' = copied_view(term, WIDTH, HEIGHT, x_offset, y_offset)
         /\ call' = [op |-> "copied_view", self |-> term,
                     args |-> <<WIDTH, HEIGHT, x_offset, y_offset>>]
         /\ panicked' = (ret'.tag = "panic")
    /\ UNCHANGED term
    /\ TermFrame

NextConst == Character \/ ConstCharacterMut \/ CopiedView

SpecConst == InitConst /\ [][NextConst]_vars

(***************************************************************************)
(* Claims about the Terminal trait's cell access, checked under SpecConst. *)
(***************************************************************************)
\* C11: on a terminal of dimensions (W, H), character(x, y) and
\* character_mut(x, y) return None whenever x >= W or y >= H, and never
\* panic.
C11_OutOfBoundsIsNone ==
    call.op \in {"character", "character_mut"}
        => /\ ret.tag # "panic"
           /\ (\/ call.args[1] >= call.self.WIDTH
               \/ call.args[2] >= call.self.HEIGHT) => ret = None

(***************************************************************************)
(* ConstantSizeRef read and written cell by cell, call after call.         *)
(***************************************************************************)
\* iter().flatten() over the rows: the cells in row-major order
cells(t) == [i \in 1..Len(cells_mut(t)) |-> Deref(t.characters, cells_mut(t)[i])]

\* characters.get_mut(x)?.get_mut(y): rows and columns exchanged
cell_mut_transposed(t, x, y) ==
    IF x >= Len(t.characters) THEN None
    ELSE IF y >= Len(t.characters[x + 1]) THEN None
    ELSE Some(<<y, x>>)

\* characters.get_mut(y)?.get_mut(x): the reference to the cell, given as
\* its <<x, y>>
cell_mut(t, x, y) ==
    IF y >= Len(t.characters) THEN None
    ELSE IF x >= Len(t.characters[y + 1]) THEN None
    ELSE Some(<<x, y>>)

\* snap counts the writes made through cell_mut
InitRef ==
    /\ \E W \in 0..MaxW, H \in 0..MaxH : term = ConstantSizeRef_new(W, H)
    /\ rect = NoRect /\ mst = NoMst /\ snap = [writes |-> 0]
    /\ call = [op |-> "ConstantSizeRef::new", self |-> <<>>, args |-> <<>>]
    /\ ret = NoRet
    /\ panicked = FALSE

\* term.cell(x, y)
Cell ==
    /\ ~panicked
    /\ \E x \in 0..(MaxW + 1), y \in 0..(MaxH + 1) :
         /\ ret' = cell(term, x, y)
         /\ call' = [op |-> "cell", self |-> term, args |-> <<x, y>>]
    /\ UNCHANGED <<term, snap, panicked, rect, mst>>

\* term.cell_mut(x, y).map(|cell| cell.character = c)
CellMut ==
    /\ ~panicked
    /\ snap.writes < MaxWrites
    /\ \E x \in 0..(MaxW + 1), y \in 0..(MaxH + 1), c \in Chars :
         LET r == cell_mut(term, x, y)
         IN  /\ ret' = r
             /\ call' = [op |-> "cell_mut", self |-> term, args |-> <<x, y, c>>]
             /\ term' = IF r.tag = "Some"
                        THEN [term EXCEPT !.characters =
                                WriteRef(term.characters, r.value,
                                    [Deref(term.characters, r.value) EXCEPT !.character = c])]
                        ELSE term
    /\ snap' = [writes |-> snap.writes + 1]
    /\ UNCHANGED <<panicked, rect, mst>>

\* term.cells().count()
Cells ==
    /\ ~panicked
    /\ ret' = Len(cells(term))
    /\ call' = [op |-> "cells", self |-> term, args |-> <<>>]
    /\ UNCHANGED <<term, snap, panicked, rect, mst>>

NextRef == Cell \/ CellMut \/ Cells

SpecRef == InitRef /\ [][NextRef]_vars

\* C12: cell(x, y) and cell_mut(x, y) of a ConstantSizeRef return Some
\* exactly when x < WIDTH and y < HEIGHT, and the cell returned is element
\* y * WIDTH + x of cells(), which has exactly WIDTH * HEIGHT elements.
C12_CellIsRowMajorElement ==
    /\ call.op = "cells" => ret = call.self.WIDTH * call.self.HEIGHT
    /\ call.op \in {"cell", "cell_mut"} =>
         LET t == call.self
             x == call.args[1]
             y == call.args[2]
             i == y * t.WIDTH + x + 1
         IN  /\ ret.tag \in {"Some", "None"}
             /\ ret.tag = "Some" <=> (x < t.WIDTH /\ y < t.HEIGHT)
             /\ Len(cells(t)) = t.WIDTH * t.HEIGHT
             /\ (ret.tag = "Some" /\ call.op = "cell") => ret.value = cells(t)[i]
             /\ (ret.tag = "Some" /\ call.op = "cell_mut") =>
                  /\ ret.value = cells_mut(t)[i]
                  /\ cells(term) = [cells(t) EXCEPT ![i].character = call.args[3]]

\* a cell off the first row and column was written and then read back
C12_Witness ==
    /\ call.op = "cell"
    /\ call.args[1] >= 1 /\ call.args[2] >= 1
    /\ ret.tag = "Some"
    /\ ret.value.character \in Chars

\* C13: copied_view::<WIDTH, HEIGHT>(x_offset, y_offset) on a terminal of
\* dimensions (tw, th) returns Ok exactly when x_offset + WIDTH <= tw and
\* y_offset + HEIGHT <= th, and otherwise
\* Err(OutOfBoundsCoordinate(x_offset + WIDTH, y_offset + HEIGHT)); it never
\* panics.
C13_CopiedViewInBounds ==
    call.op = "copied_view" =>
        LET tw == call.self.WIDTH
            th == call.self.HEIGHT
            WIDTH    == call.args[1]
            HEIGHT   == call.args[2]
            x_offset == call.args[3]
            y_offset == call.args[4]
        IN  /\ ret.tag # "panic"
            /\ ret.tag = "Ok" <=> (x_offset + WIDTH <= tw /\ y_offset + HEIGHT <= th)
            /\ ret.tag # "Ok" =>
                 ret = OutOfBoundsCoordinate(x_offset + WIDTH, y_offset + HEIGHT)

\* C14: when copied_view returns Ok(view), view[y][x] equals the cell that
\* character(x_offset + x, y_offset + y) returns.
C14_CopiedViewCells ==
    (call.op = "copied_view" /\ ret.tag = "Ok") =>
        LET WIDTH    == call.args[1]
            HEIGHT   == call.args[2]
            x_offset == call.args[3]
            y_offset == call.args[4]
        IN  \A x \in 0..(WIDTH - 1), y \in 0..(HEIGHT - 1) :
              LET c == ConstantSizeTerminal_character(term, x_offset + x, y_offset + y)
              IN  /\ c.tag = "Some"
                  /\ ret.value[y + 1][x + 1] = Deref(term.characters, c.value)

(***************************************************************************)
(* BoundingBox of Text and CenteredText (src/widgets/builtins/text.rs,     *)
(* centered_text.rs; the trait in src/widgets/mod.rs)                      *)
(***************************************************************************)
\* the value a call returns when it does not panic
Returned(v) == [tag |-> "return", value |-> v]

\* Text::bounding_box(terminal); text.len() / 0 panics
Text_bounding_box(w, t) ==
    LET terminal_width == Metadata_dimensions(t)[1]
    IN  IF terminal_width = 0 THEN Panic
        ELSE LET height_ == Len(w.text) \div terminal_width
                 width_  == IF Len(w.text) <= terminal_width
                            THEN Len(w.text) ELSE terminal_width
             IN  Returned(of_size(width_, height_))

Text_completely_covers(w, rectangle) == Len(w.text) >= area(rectangle)

CenteredText_completely_covers(w, rectangle) == area(rectangle) <= Len(w.prompt_text)

\* BoundingBox::covered_in for Text
Text_covered_in(w, t) ==
    LET bb == Text_bounding_box(w, t)
    IN  IF bb.tag = "panic" THEN Panic
        ELSE Returned(Text_completely_covers(w, bb.value))

\* BoundingBox::covered_in for CenteredText, whose bounding_box takes the
\* terminal's rectangle
CenteredText_covered_in(w, t) ==
    LET bb == CenteredText_bounding_box(w, Metadata_bounding_box(t))
    IN  IF bb.tag = "panic" THEN Panic
        ELSE Returned(CenteredText_completely_covers(w, bb.value))

\* the rectangles that lie within terminal t
RectsIn(t) == {r \in Rects : right(r) <= t.WIDTH /\ bottom(r) <= t.HEIGHT}

\* Text::new(s).completely_covers(r)
TextCompletelyCovers ==
    /\ ~panicked
    /\ \E s \in Texts, r \in RectsIn(term) :
         /\ ret' = Returned(Text_completely_covers(Text_new(s), r))
         /\ call' = [op |-> "Text::completely_covers", self |-> Text_new(s), args |-> <<r>>]
    /\ UNCHANGED <<term, panicked>>
    /\ TermFrame

\* CenteredText::new(s).completely_covers(r)
CenteredCompletelyCovers ==
    /\ ~panicked
    /\ \E s \in Texts, r \in RectsIn(term) :
         /\ ret' = Returned(CenteredText_completely_covers(CenteredText_new(s), r))
         /\ call' = [op |-> "CenteredText::completely_covers",
                     self |-> CenteredText_new(s), args |-> <<r>>]
    /\ UNCHANGED <<term, panicked>>
    /\ TermFrame

\* Text::new(s).covered_in(&term)
TextCoveredIn ==
    /\ ~panicked
    /\ \E s \in Texts :
         /\ ret' = Text_covered_in(Text_new(s), term)
         /\ call' = [op |-> "Text::covered_in", self |-> Text_new(s), args |-> <<term>>]
         /\ panicked' = (ret'.tag = "panic")
    /\ UNCHANGED term
    /\ TermFrame

\* CenteredText::new(s).covered_in(&term)
CenteredCoveredIn ==
    /\ ~panicked
    /\ \E s \in Texts :
         /\ ret' = CenteredText_covered_in(CenteredText_new(s), term)
         /\ call' = [op |-> "CenteredText::covered_in",
                     self |-> CenteredText_new(s), args |-> <<term>>]
         /\ panicked' = (ret'.tag = "panic")
    /\ UNCHANGED term
    /\ TermFrame

NextCovers ==
    TextCompletelyCovers \/ CenteredCompletelyCovers \/ TextCoveredIn \/ CenteredCoveredIn

SpecCovers == InitTerm /\ [][NextCovers]_vars

\* the cells of rectangle r: width(r) columns from left(r), height(r) rows
\* from top(r)
CellsOf(r) == {<<x, y>> : x \in left(r)..(right(r) - 1), y \in top(r)..(bottom(r) - 1)}

\* the cells that drawing widget w (of the kind the call names) overwrites
\* on a blank terminal of the dimensions of t
Overwritten(kind, w, t) ==
    LET blank == ConstantSizeRef_new(t.WIDTH, t.HEIGHT)
        drawn == IF kind = "Text"
                 THEN Text_draw(w, blank.characters, cells_mut(blank), 0).characters
                 ELSE CenteredText_draw(w, blank).characters
    IN  {ref \in CellsOf(Metadata_bounding_box(t)) : Deref(drawn, ref).character # " "}

\* C15: for Text and CenteredText, completely_covers(rect) returns true only
\* if drawing the widget overwrites every cell of rect, wherever rect lies;
\* covered_in is completely_covers of the widget's own bounding box.
C15_CoversOnlyWhatIsOverwritten ==
    /\ (call.op = "Text::completely_covers" /\ ret = Returned(TRUE))
         => CellsOf(call.args[1]) \subseteq Overwritten("Text", call.self, term)
    /\ (call.op = "CenteredText::completely_covers" /\ ret = Returned(TRUE))
         => CellsOf(call.args[1]) \subseteq Overwritten("CenteredText", call.self, term)
    /\ (call.op = "Text::covered_in" /\ ret = Returned(TRUE))
         => CellsOf(Text_bounding_box(call.self, term).value)
                \subseteq Overwritten("Text", call.self, term)
    /\ (call.op = "CenteredText::covered_in" /\ ret = Returned(TRUE))
         => CellsOf(CenteredText_bounding_box(call.self, Metadata_bounding_box(term)).value)
                \subseteq Overwritten("CenteredText", call.self, term)

(***************************************************************************)
(* CenteredText::update (src/widgets/builtins/centered_text.rs)            *)
(***************************************************************************)
MouseButtons == {"LeftClick", "RightClick", "AuxiliaryButton"}

CellClicked(x, y, button) == [tag |-> "CellClicked", x |-> x, y |-> y, button |-> button]

\* the events that carry no cell
OtherUpdateInfo ==
    {[tag |-> "KeyboardCharacter"], [tag |-> "KeyboardInput"], [tag |-> "TimeDelta"],
     [tag |-> "TerminalResized"], [tag |-> "NoInfo"]}

\* the events sent to a widget on a terminal of at most MaxW x MaxH
UpdateInfo ==
    {CellClicked(x, y, b) : x \in 0..(MaxW + 1), y \in 0..(MaxH + 1), b \in MouseButtons}
        \cup OtherUpdateInfo

\* CenteredText::update(&mut self, update_info, terminal): the result and
\* the widget after the call
CenteredText_update(w, update_info, t) ==
    IF update_info.tag = "CellClicked" /\ update_info.button = "LeftClick"
    THEN LET bb == CenteredText_bounding_box(w, Metadata_bounding_box(t))
         IN  IF bb.tag # "Ok" THEN [ret |-> bb, self |-> w]
             ELSE IF contains(bb.value, <<update_info.x, update_info.y>>)
             THEN [ret |-> Ok("Interacted"), self |-> w]
             ELSE [ret |-> Ok("NoEvent"), self |-> w]
    ELSE [ret |-> Ok("NoEvent"), self |-> w]

\* snap holds the widget as the last update left it
InitUpdate ==
    /\ \E W \in 0..MaxW, H \in 0..MaxH : term = ConstantSizeRef_new(W, H)
    /\ rect = NoRect /\ mst = NoMst /\ snap = [widget |-> <<>>]
    /\ call = [op |-> "ConstantSizeRef::new", self |-> <<>>, args |-> <<>>]
    /\ ret = NoRet
    /\ panicked = FALSE

\* CenteredText::new(s).update(update_info, &term)
CenteredUpdate ==
    /\ ~panicked
    /\ \E s \in Texts, update_info \in UpdateInfo :
         LET w == CenteredText_new(s)
             u == CenteredText_update(w, update_info, term)
         IN  /\ ret' = u.ret
             /\ snap' = [widget |-> u.self]
             /\ call' = [op |-> "CenteredText::update", self |-> w,
                         args |-> <<update_info, term>>]
             /\ panicked' = (u.ret.tag = "panic")
    /\ UNCHANGED <<term, rect, mst>>

NextUpdate == CenteredUpdate

SpecCenteredUpdate == InitUpdate /\ [][NextUpdate]_vars

\* C16: CenteredText::update returns Interacted exactly when the event is a
\* left-button CellClicked(x, y) whose coordinates fall in the widget's
\* bounding box for that terminal, and NoEvent for every other event; it
\* never returns LifecycleEnd and changes neither the terminal nor the
\* widget.
C16_UpdateReportsClicksInBox ==
    call.op = "CenteredText::update" =>
        LET e  == call.args[1]
            bb == CenteredText_bounding_box(call.self, Metadata_bounding_box(term))
            in_box == /\ e.tag = "CellClicked" /\ e.button = "LeftClick"
                      /\ bb.tag = "Ok"
                      /\ left(bb.value) <= e.x /\ e.x <= right(bb.value)
                      /\ top(bb.value) <= e.y /\ e.y <= bottom(bb.value)
        IN  /\ ret = IF in_box THEN Ok("Interacted") ELSE Ok("NoEvent")
            /\ term = call.args[2]
            /\ snap.widget = call.self

(***************************************************************************)
(* Rectangle queries: a rectangle is constructed and then asked about      *)
(* points and other rectangles.                                            *)
(***************************************************************************)
\* rect.contains(point)
Contains ==
    /\ ~panicked
    /\ \E point \in Point :
         /\ ret' = Returned(contains(rect, point))
         /\ call' = [op |-> "contains", self |-> rect, args |-> <<point>>]
    /\ UNCHANGED <<rect, panicked, term, mst, snap>>

\* rect.contains_rect(other)
ContainsRect ==
    /\ ~panicked
    /\ \E other \in Rects :
         /\ ret' = Returned(contains_rect(rect, other))
         /\ call' = [op |-> "contains_rect", self |-> rect, args |-> <<other>>]
    /\ UNCHANGED <<rect, panicked, term, mst, snap>>

NextGeom == Contains \/ ContainsRect

SpecGeom == InitRect /\ [][NextGeom]_vars

\* C17: contains(p) is true exactly when left <= p.x <= right and
\* top <= p.y <= bottom, both ends included, so a rectangle with
\* left == right has width 0 and still contains the points with x == left;
\* contains_rect(r) is true exactly when the top-left and the bottom-right
\* corner of r are both contained.
C17_ContainsIsInclusive ==
    /\ call.op = "contains" =>
         LET s == call.self
             x == call.args[1][1]
             y == call.args[1][2]
         IN  /\ ret = Returned(/\ s.left_top[1] <= x /\ x <= s.right_bottom[1]
                               /\ s.left_top[2] <= y /\ y <= s.right_bottom[2])
             /\ (/\ s.left_top[1] = s.right_bottom[1] /\ x = s.left_top[1]
                 /\ s.left_top[2] <= y /\ y <= s.right_bottom[2])
                  => (width(s) = 0 /\ ret = Returned(TRUE))
    /\ call.op = "contains_rect" =>
         LET s == call.self
             r == call.args[1]
             within(p) == /\ s.left_top[1] <= p[1] /\ p[1] <= s.right_bottom[1]
                          /\ s.left_top[2] <= p[2] /\ p[2] <= s.right_bottom[2]
         IN  ret = Returned(within(r.left_top) /\ within(r.right_bottom))

\* a rectangle of width 0 was asked about a point on its only column and
\* answered true
C17_Witness ==
    /\ call.op = "contains"
    /\ call.self.left_top[1] = call.self.right_bottom[1]
    /\ call.args[1][2] = call.self.right_bottom[2]
    /\ call.self.left_top[2] < call.self.right_bottom[2]
    /\ ret = Returned(TRUE)

\* C18: of_size(w, h) has left_top (0, 0), width w, height h and area
\* w * h; its area is 0 whenever w = 0 or h = 0.
C18_OfSize ==
    call.op = "of_size" =>
        LET w == call.args[1]
            h == call.args[2]
        IN  /\ left_top(rect) = <<0, 0>>
            /\ width(rect) = w
            /\ height(rect) = h
            /\ area(rect) = w * h
            /\ (w = 0 \/ h = 0) => area(rect) = 0

\* of_size(0, h) with h > 0 was called and the area is 0
C18_Witness ==
    /\ call.op = "of_size"
    /\ call.args[1] = 0 /\ call.args[2] > 0
    /\ rect = [left_top |-> <<0, 0>>, right_bottom |-> <<0, call.args[2]>>]
    /\ area(rect) = 0

(***************************************************************************)
(* UpdateResult and its derived order (src/terminal/interactive.rs)        *)
(***************************************************************************)
MaxChildren == 4      \* most child widgets updated under one parent

UpdateResults == {"NoEvent", "Interacted", "LifecycleEnd"}

\* the variants in the reverse of their declared order
discriminant_reversed(r) ==
    CASE r = "NoEvent" -> 2
      [] r = "Interacted" -> 1
      [] r = "LifecycleEnd" -> 0

\* NoEvent = 0, Interacted = 1, LifecycleEnd = 2
discriminant(r) ==
    CASE r = "NoEvent" -> 0
      [] r = "Interacted" -> 1
      [] r = "LifecycleEnd" -> 2

\* #[derive(Ord, PartialOrd)]: variants compare by discriminant
UpdateResult_cmp(a, b) ==
    IF discriminant(a) < discriminant(b) THEN "Less"
    ELSE IF discriminant(a) = discriminant(b) THEN "Equal"
    ELSE "Greater"

\* Ord::max(a, b): a when a compares Greater, else b
UpdateResult_max(a, b) == IF UpdateResult_cmp(a, b) = "Greater" THEN a ELSE b

\* snap holds the results the children have returned so far, ret the
\* greatest of them
InitResult ==
    /\ snap = [children |-> <<>>]
    /\ ret = NoRet
    /\ call = [op |-> "none", self |-> <<>>, args |-> <<>>]
    /\ rect = NoRect /\ term = NoTerm /\ mst = NoMst
    /\ panicked = FALSE

\* one more child is updated and its result folded in with max
UpdateChild ==
    /\ ~panicked
    /\ Len(snap.children) < MaxChildren
    /\ \E child \in UpdateResults :
         /\ ret' = IF snap.children = <<>> THEN Returned(child)
                   ELSE Returned(UpdateResult_max(ret.value, child))
         /\ call' = [op |-> "max", self |-> ret, args |-> <<child>>]
         /\ snap' = [children |-> Append(snap.children, child)]
    /\ UNCHANGED <<rect, term, mst, panicked>>

NextResult == UpdateChild

SpecResult == InitResult /\ [][NextResult]_vars

\* C19: UpdateResult is totally ordered NoEvent < Interacted < LifecycleEnd,
\* so the maximum over the child results is LifecycleEnd if any child ended,
\* otherwise Interacted if any child was interacted with, otherwise NoEvent.
C19_MaxOfChildResults ==
    LET children == {snap.children[i] : i \in 1..Len(snap.children)}
    IN  call.op = "max" =>
          /\ UpdateResult_cmp("NoEvent", "Interacted") = "Less"
          /\ UpdateResult_cmp("Interacted", "LifecycleEnd") = "Less"
          /\ UpdateResult_cmp("NoEvent", "LifecycleEnd") = "Less"
          /\ \A a \in children, b \in children :
                /\ UpdateResult_cmp(a, b) = "Equal" <=> a = b
                /\ UpdateResult_cmp(a, b) = "Less" <=> UpdateResult_cmp(b, a) = "Greater"
          /\ ret = Returned(IF "LifecycleEnd" \in children THEN "LifecycleEnd"
                            ELSE IF "Interacted" \in children THEN "Interacted"
                            ELSE "NoEvent")

\* an interacted child came after an ended one and before an idle one, and
\* the result is LifecycleEnd
C19_Witness ==
    /\ call.op = "max"
    /\ snap.children = <<"LifecycleEnd", "Interacted", "NoEvent">>
    /\ ret = Returned("LifecycleEnd")

\* C20: if the text has at most W * H characters, CenteredText's bounding
\* box on a W x H terminal has an area of at least the text length and
\* drawing it returns Ok; drawing fails only when the text has more
\* characters than the terminal can contain.
C20_FittingTextIsDrawn ==
    LET fits == Len(call.self.prompt_text) <= Capacity(term)
    IN  /\ (call.op = "CenteredText::bounding_box" /\ fits)
             => /\ ret.tag = "Ok"
                /\ area(ret.value) >= Len(call.self.prompt_text)
        /\ (call.op = "CenteredText::draw" /\ fits) => ret = Ok("NoEvent")
        /\ (call.op = "CenteredText::draw" /\ ret.tag # "Ok") => ~fits

(***************************************************************************)
(* bounding_box of Text and of CenteredText asked of a terminal.           *)
(***************************************************************************)
\* Text::new(s).bounding_box(&term)
TextBoundingBox ==
    /\ ~panicked
    /\ \E s \in Texts :
         /\ ret' = Text_bounding_box(Text_new(s), term)
         /\ call' = [op |-> "Text::bounding_box", self |-> Text_new(s), args |-> <<term>>]
         /\ panicked' = (ret'.tag = "panic")
    /\ UNCHANGED term
    /\ TermFrame

NextBoundingBox == TextBoundingBox \/ CenteredTerminalBoundingBox

SpecBoundingBox == InitTerm /\ [][NextBoundingBox]_vars

\* C21: for every terminal size, width 0 and height 0 included, and every
\* text length, Text::bounding_box and CenteredText::bounding_box return a
\* rectangle or an error and do not panic: no division by zero, no unsigned
\* underflow.
C21_BoundingBoxNeverPanics ==
    call.op \in {"Text::bounding_box", "CenteredText::bounding_box"}
        => /\ ret.tag # "panic"
           /\ ret.tag \in {"return", "Ok"} => ~Underflows(ret.value)

\* C24: Text::bounding_box for a terminal of width W contains every cell
\* that Text::draw writes on that terminal: for a text of n characters the
\* box has min(n, W) columns and at least ceil(n / W) rows, so its area is at
\* least n whenever the text fits.
C24_TextBoxContainsDrawnCells ==
    (call.op = "Text::bounding_box" /\ ret.tag = "return") =>
        LET n == Len(call.self.text)
            W == term.WIDTH
            box == ret.value
        IN  /\ width(box) = (IF n <= W THEN n ELSE W)
            /\ height(box) >= div_ceil(n, W)
            /\ Overwritten("Text", call.self, term) \subseteq CellsOf(box)
            /\ n <= Capacity(term) => area(box) >= n

(***************************************************************************)
(* on_top_of(A, B), the vertical stack of two Text widgets (spec 4.5; used *)
(* by examples/stacking.rs): B is drawn first into the rows below A's      *)
(* height, then A into the rows above.                                     *)
(***************************************************************************)
\* the texts made of character c alone
TextsOf(c) == {[i \in 1..n |-> c] : n \in 0..MaxLen}

on_top_of(A, B) == [top |-> A, bottom |-> B]

\* the rows given to the top widget: its natural height, clipped to the
\* terminal
Stacked_top_height(w, t) ==
    LET bb == Text_bounding_box(w.top, t)
    IN  IF bb.tag = "panic" THEN Panic
        ELSE Returned(IF height(bb.value) <= t.HEIGHT THEN height(bb.value) ELSE t.HEIGHT)

\* the view of rows [first, last) of t over its whole width
Stacked_rows(t, first, last) == view_mut(t, Rectangle_new(<<0, first>>, <<t.WIDTH, last>>))

\* a stack that draws the bottom widget over the whole terminal
Stacked_draw_bottom_unclipped(w, t) ==
    LET h == Stacked_top_height(w, t)
    IN  IF h.tag = "panic" THEN [ret |-> Panic, characters |-> t.characters]
        ELSE Text_draw(w.bottom, t.characters, Stacked_rows(t, 0, t.HEIGHT).value, 0)

\* the first step of the draw: the bottom widget into rows [top height, H)
Stacked_draw_bottom(w, t) ==
    LET h == Stacked_top_height(w, t)
    IN  IF h.tag = "panic" THEN [ret |-> Panic, characters |-> t.characters]
        ELSE Text_draw(w.bottom, t.characters, Stacked_rows(t, h.value, t.HEIGHT).value, 0)

\* the whole draw: the bottom step, then the top widget into rows
\* [0, top height); an error of a step is returned
Stacked_draw(w, t) ==
    LET b == Stacked_draw_bottom(w, t)
    IN  IF b.ret.tag # "Ok" THEN b
        ELSE Text_draw(w.top, b.characters,
                       Stacked_rows(t, 0, Stacked_top_height(w, t).value).value, 0)

\* A.on_top_of(B).drawn(&mut term), A written in "a" and B in "b"
StackedDraw ==
    /\ ~panicked
    /\ \E A \in TextsOf("a"), B \in TextsOf("b") :
         LET w == on_top_of(Text_new(A), Text_new(B))
             d == Stacked_draw(w, term)
         IN  /\ term' = [term EXCEPT !.characters = d.characters]
             /\ ret' = d.ret
             /\ call' = [op |-> "Stacked::draw", self |-> w, args |-> <<term>>]
             /\ panicked' = (d.ret.tag = "panic")
    /\ TermFrame

NextStacked == StackedDraw

SpecStacked == InitTerm /\ [][NextStacked]_vars

\* the cells in which the grids c1 and c2 of terminal t differ
Changed(t, c1, c2) ==
    {ref \in CellsOf(Metadata_bounding_box(t)) : Deref(c1, ref) # Deref(c2, ref)}

\* C22: on_top_of(A, B) drawn into a terminal of height H writes A only to
\* rows [0, A.height) and B only to rows [A.height, H), no row is written by
\* both, and when A's natural height exceeds H it is A that is clipped: B's
\* rows are never taken from above H or from A's.
C22_StackedRows ==
    (call.op = "Stacked::draw" /\ ret.tag # "panic") =>
        LET before == call.args[1]
            blank  == ConstantSizeRef_new(before.WIDTH, before.HEIGHT)
            natural == height(Text_bounding_box(call.self.top, before).value)
            b == Stacked_draw_bottom(call.self, blank)
            d == Stacked_draw(call.self, blank)
            by_B == Changed(blank, blank.characters, b.characters)
            by_A == Changed(blank, b.characters, d.characters)
        IN  /\ \A ref \in by_A : ref[2] < natural /\ ref[2] < before.HEIGHT
            /\ \A ref \in by_B : natural <= ref[2] /\ ref[2] < before.HEIGHT
            /\ {ref[2] : ref \in by_A} \cap {ref[2] : ref \in by_B} = {}
            /\ \A ref \in CellsOf(Metadata_bounding_box(before)) \ (by_A \cup by_B) :
                  Deref(term.characters, ref) = Deref(before.characters, ref)
            /\ \A ref \in by_A : Deref(term.characters, ref).character = "a"
            /\ \A ref \in by_B : Deref(term.characters, ref).character = "b"

\* both widgets were drawn: A is on the first row and B on a row below it
C22_Witness ==
    /\ call.op = "Stacked::draw"
    /\ ret.tag = "Ok"
    /\ term.HEIGHT >= 2 /\ term.WIDTH >= 1
    /\ call.args[1].characters[1][1].character = " "
    /\ term.characters[1][1].character = "a"
    /\ term.characters[2][1].character = "b"

(***************************************************************************)
(* ViewSplit, the left and right halves of a terminal (spec 4.3; used by   *)
(* examples/split.rs).  A half is a view: writes through it land in the    *)
(* terminal's own cells.                                                   *)
(***************************************************************************)
\* the column at which a split that rounds the left half down divides
ViewSplit_midpoint_rounded_down(t) == t.WIDTH \div 2

\* the column at which the terminal is divided: the left half gets the
\* extra column of an odd width
ViewSplit_midpoint(t) == t.WIDTH - (t.WIDTH \div 2)

\* the rectangles of the two halves
ViewSplit_left(t)  == Rectangle_new(<<0, 0>>, <<ViewSplit_midpoint(t), t.HEIGHT>>)
ViewSplit_right(t) == Rectangle_new(<<ViewSplit_midpoint(t), 0>>, <<t.WIDTH, t.HEIGHT>>)

\* text.drawn(&mut split.split_left_mut()) or split_right_mut(), by half
SplitDraw(half) ==
    /\ ~panicked
    /\ \E s \in Texts :
         LET r == IF half = "left" THEN ViewSplit_left(term) ELSE ViewSplit_right(term)
             d == Text_draw(Text_new(s), term.characters, view_mut(term, r).value, 0)
         IN  /\ term' = [term EXCEPT !.characters = d.characters]
             /\ ret' = d.ret
             /\ call' = [op |-> "ViewSplit::draw", self |-> half,
                         args |-> <<Text_new(s), term>>]
    /\ UNCHANGED panicked
    /\ TermFrame

SplitLeftDraw  == SplitDraw("left")
SplitRightDraw == SplitDraw("right")

NextSplit == SplitLeftDraw \/ SplitRightDraw

SpecSplit == InitTerm /\ [][NextSplit]_vars

\* C23: ViewSplit of a terminal of width 2k yields a left and a right half
\* of width k each, of width 2k+1 a left half of width k+1 and a right half
\* of width k; the halves are disjoint and together cover the terminal, and
\* a write into one half changes no cell of the other half.
C23_SplitHalves ==
    call.op = "ViewSplit::draw" =>
        LET before == call.args[2]
            k == before.WIDTH \div 2
            l == ViewSplit_left(before)
            r == ViewSplit_right(before)
            other == IF call.self = "left" THEN r ELSE l
        IN  /\ before.WIDTH % 2 = 0 => (width(l) = k /\ width(r) = k)
            /\ before.WIDTH % 2 = 1 => (width(l) = k + 1 /\ width(r) = k)
            /\ height(l) = before.HEIGHT /\ height(r) = before.HEIGHT
            /\ CellsOf(l) \cap CellsOf(r) = {}
            /\ CellsOf(l) \cup CellsOf(r) = CellsOf(Metadata_bounding_box(before))
            /\ \A ref \in CellsOf(other) :
                  Deref(term.characters, ref) = Deref(before.characters, ref)

\* text was written into the right half of a terminal whose left half
\* already held text, which is still there
C23_Witness ==
    /\ call.op = "ViewSplit::draw" /\ call.self = "right"
    /\ ret.tag = "Ok"
    /\ term.WIDTH >= 2 /\ term.HEIGHT >= 1
    /\ term.characters[1][1].character \in Chars
    /\ call.args[2].characters[1][term.WIDTH].character = " "
    /\ term.characters[1][term.WIDTH].character \in Chars

\* C25: after any sequence of successful and failed rescale calls starting
\* from new(), the active dimensions (w, h) satisfy w <= MAX_WIDTH and
\* h <= MAX_HEIGHT and are the arguments of the most recent successful call,
\* or (MAX_WIDTH, MAX_HEIGHT) if none succeeded: they start at the maximum,
\* every successful rescale sets them to its arguments, and no other step
\* changes them.
C25_DimensionsFollowLastSuccess ==
    /\ Terminal_dimensions(mst) = <<mst.MAX_WIDTH, mst.MAX_HEIGHT>>
    /\ [](/\ Terminal_dimensions(mst)[1] <= mst.MAX_WIDTH
          /\ Terminal_dimensions(mst)[2] <= mst.MAX_HEIGHT)
    /\ [][Terminal_dimensions(mst') =
             IF call'.op = "rescale" /\ ret'.tag = "Ok"
             THEN call'.args
             ELSE Terminal_dimensions(mst)]_vars

\* a rescale beyond the maximum failed on a terminal that an earlier call
\* had shrunk, and the shrunk dimensions are still in force
C25_Witness ==
    /\ call.op = "rescale"
    /\ ret.tag = "Err"
    /\ call.args[1] > mst.MAX_WIDTH
    /\ Terminal_dimensions(mst)[1] < mst.MAX_WIDTH
    /\ Terminal_dimensions(mst)[2] < mst.MAX_HEIGHT

\* C26: after a MaxSizeTerminal is shrunk with rescale to (w, h),
\* character(x, y) for every x < w and y < h returns the same stored cell,
\* with the same content, that character(x, y) returned before the shrink.
C26_ShrinkKeepsCoordinates ==
    (/\ call.op = "rescale" /\ ret.tag = "Ok"
     /\ call.args[1] <= Terminal_dimensions(call.self)[1]
     /\ call.args[2] <= Terminal_dimensions(call.self)[2]) =>
        \A x \in 0..(call.args[1] - 1), y \in 0..(call.args[2] - 1) :
            LET was == character(call.self, x, y)
                is  == character(mst, x, y)
            IN  /\ is = was
                /\ is.tag = "Some" =>
                     Deref(mst.characters, is.value) = Deref(call.self.characters, was.value)

\* C27: Text::draw is not atomic: when it fails on a terminal with
\* c < len(s) cells, the first c cells have been overwritten with the first c
\* characters and the widget's style; when it succeeds, every cell at a
\* row-major index >= len(s) keeps its previous character and style.
C27_TextDrawNotAtomic ==
    call.op = "Text::draw" =>
        LET before == call.args[1]
            c == Capacity(before)
            n == Len(call.self.text)
        IN  /\ ret.tag # "Ok" =>
                  /\ c < n
                  /\ \A i \in 0..(c - 1) :
                        cell(term, i % term.WIDTH, i \div term.WIDTH)
                           = Some([character |-> call.self.text[i + 1],
                                   style |-> call.self.style])
            /\ ret.tag = "Ok" =>
                  \A i \in n..(c - 1) :
                        cell(term, i % term.WIDTH, i \div term.WIDTH)
                           = cell(before, i % term.WIDTH, i \div term.WIDTH)

\* a styled three-character text failed on a blank terminal of two cells,
\* which now hold its first two characters
C27_Witness ==
    /\ call.op = "Text::draw"
    /\ ret.tag = "Err"
    /\ Len(call.self.text) = 3 /\ call.self.style = "styled"
    /\ Capacity(call.args[1]) = 2
    /\ \A i \in 1..2 : cells(call.args[1])[i] = BlankCell
    /\ \A i \in 1..2 : cells(term)[i] = [character |-> call.self.text[i], style |-> "styled"]

\* C28: for every rectangle r handed to CenteredText::bounding_box, also one
\* whose top-left corner is not (0, 0), the returned rectangle lies inside r
\* (r.contains_rect(result)) and is never wider or taller than r.
C28_BoxInsideRectangle ==
    (call.op = "CenteredText::bounding_box" /\ ret.tag = "Ok") =>
        LET r == call.args[1]
        IN  /\ contains_rect(r, ret.value)
            /\ width(ret.value) <= width(r)
            /\ height(ret.value) <= height(r)

\* C29: every click for which CenteredText::update returns Interacted lands
\* on a cell of the region the widget draws into, left <= x < left + width
\* and top <= y < top + height of its bounding box; a click one column right
\* of or one row below that region returns NoEvent.
C29_InteractedOnlyOnDrawnCells ==
    (call.op = "CenteredText::update" /\ ret.tag = "Ok" /\ term.WIDTH >= 1) =>
        LET e  == call.args[1]
            bb == CenteredText_bounding_box(call.self, Metadata_bounding_box(term)).value
        IN  /\ ret = Ok("Interacted") =>
                  /\ left(bb) <= e.x /\ e.x < left(bb) + width(bb)
                  /\ top(bb) <= e.y /\ e.y < top(bb) + height(bb)
            /\ (/\ e.tag = "CellClicked"
                /\ \/ e.x = left(bb) + width(bb)
                   \/ e.y = top(bb) + height(bb)) => ret = Ok("NoEvent")

(***************************************************************************)
(* UpdateInfo::mouse_relative_to (src/terminal/interactive.rs): an event   *)
(* is made relative to one rectangle after another, as nested views do.    *)
(***************************************************************************)
NoInfo == [tag |-> "NoInfo"]

\* usize::checked_sub
checked_sub(a, b) == IF a >= b THEN Some(a - b) ELSE None

\* mouse_relative_to with saturating subtractions
mouse_relative_to_saturating(e, r) ==
    IF e.tag = "CellClicked"
    THEN CellClicked(IF e.x >= left(r) THEN e.x - left(r) ELSE 0,
                     IF e.y >= top(r) THEN e.y - top(r) ELSE 0, e.button)
    ELSE e

mouse_relative_to(e, r) ==
    IF e.tag = "CellClicked"
    THEN LET x == checked_sub(e.x, left(r))
             y == checked_sub(e.y, top(r))
         IN  IF x.tag = "None" THEN NoInfo
             ELSE IF y.tag = "None" THEN NoInfo
             ELSE CellClicked(x.value, y.value, e.button)
    ELSE e

\* ret holds the event as it was received
InitMouse ==
    /\ \E e \in UpdateInfo : ret = Returned(e)
    /\ call = [op |-> "none", self |-> <<>>, args |-> <<>>]
    /\ rect = NoRect /\ term = NoTerm /\ mst = NoMst /\ snap = <<>>
    /\ panicked = FALSE

\* update_info.mouse_relative_to(rect), applied to the event at hand
MouseRelativeTo ==
    /\ ~panicked
    /\ \E r \in Rects :
         /\ ret' = Returned(mouse_relative_to(ret.value, r))
         /\ call' = [op |-> "mouse_relative_to", self |-> ret.value, args |-> <<r>>]
    /\ UNCHANGED <<rect, term, mst, snap, panicked>>

NextMouse == MouseRelativeTo

SpecMouse == InitMouse /\ [][NextMouse]_vars

\* C30: mouse_relative_to(rect) maps CellClicked(x, y, b) to
\* CellClicked(x - rect.left, y - rect.top, b) when x >= rect.left and
\* y >= rect.top, to NoInfo when the click is left of or above rect, and
\* returns every other event unchanged.
C30_MouseRelativeTo ==
    call.op = "mouse_relative_to" =>
        LET e == call.self
            r == call.args[1]
        IN  IF e.tag # "CellClicked" THEN ret = Returned(e)
            ELSE IF e.x >= r.left_top[1] /\ e.y >= r.left_top[2]
            THEN ret = Returned([tag |-> "CellClicked", x |-> e.x - r.left_top[1],
                                 y |-> e.y - r.left_top[2], button |-> e.button])
            ELSE ret = Returned([tag |-> "NoInfo"])

\* a click below the top of a rectangle and left of its left edge became
\* NoInfo
C30_Witness ==
    /\ call.op = "mouse_relative_to"
    /\ call.self.tag = "CellClicked"
    /\ call.self.x < call.args[1].left_top[1]
    /\ call.self.y > call.args[1].left_top[2]
    /\ ret = Returned(NoInfo)

====
